---- MODULE Spec2Model ----
(***************************************************************************)
(* Model of src/main.js: the timer-driven BFS path finder on a square      *)
(* grid.  randomizeGrids builds a grid, a source and a destination and     *)
(* starts findPathBFS, whose closure (queue, visited, found) is advanced   *)
(* by the interval callback step.                                          *)
(*                                                                         *)
(* Objects are modelled by identity: every position object that is ever    *)
(* enqueued lives in the closure's arena `nodes`, and the queue holds      *)
(* indices into it.  Index 1 is the source object itself, so the code's    *)
(* `position == source` is `id = 1`.  A missing parent (undefined) is 0.   *)
(***************************************************************************)
EXTENDS Integers, Sequences, FiniteSets, TLC

\* ------------------------------------------------------------ grid size
\* setup() sets numGrids = 30; the model keeps the grid square and scales
\* the side down so that every grid, source and destination is enumerated.
numGrids == 3

\* ---------------------------------------------------------------- bounds
\* most cells generateBlocks turns into BLOCK in setup()
MaxBlocks == 2
\* at a click of the randomize button generateBlocks draws BLOCK only among
\* the first RestartBlockCells cells (row by row)
RestartBlockCells == 0
\* most calls of setInterval in a run
MaxSessions == 2

\* ------------------------------------------------------------- constants
FREE == 0
BLOCK == 1
SOURCE == 2
DESTINATION == 3
SCAN == 4
PATH == 5

Idx == 0 .. (numGrids - 1)
Coords == Idx \X Idx   \* <<y, x>>, the order the code indexes grids[y][x]

VARIABLES
  grids,        \* grids[y][x], the global grid
  source,       \* global source point [x, y]
  destination,  \* global destination point [x, y]
  simInterval,  \* id returned by the last setInterval
  timers,       \* the interval ids that are still active
  sessions,     \* closure of findPathBFS, per interval id
  signal        \* what the last timer callback threw: "none" or "TypeError"

vars == <<grids, source, destination, simInterval, timers, sessions, signal>>

\* ------------------------------------------------------ timers (browser)
\* variant: the interval is never cancelled
clearIntervalLost(ts, id) == ts

clearInterval(ts, id) == ts \ {id}

\* variant: a click does not stop the running simulation
stopRunningSkipped(ts, id) == ts

\* randomizeGrids, line 78: if(simInterval) clearInterval(simInterval)
stopRunning(ts, id) == IF id # 0 THEN clearInterval(ts, id) ELSE ts

\* ------------------------------------------------------- grid generation
\* randomizeGrids lines 81-86 followed by generateBlocks: every cell is FREE
\* unless its draw r <= chance made it BLOCK; bs is the set of such cells.
generateBlocks(bs) ==
  [i \in Idx |-> [j \in Idx |-> IF <<i, j>> \in bs THEN BLOCK ELSE FREE]]

\* the points generateRandomPoint can return
generateRandomPoint == [x : Idx, y : Idx]

\* randomizeGrids lines 92-95: destination is redrawn while source ==
\* destination, a comparison of two object references.  Every call of
\* generateRandomPoint returns a fresh object, so the comparison is false
\* whatever the coordinates are.
sameObject(s, d) == FALSE

\* lines 98-99
markEnds(g, s, d) ==
  LET g1 == [g EXCEPT ![s.y][s.x] = SOURCE]
  IN  [g1 EXCEPT ![d.y][d.x] = DESTINATION]

\* ------------------------------------------------------------------- BFS
\* variant: the source is marked visited when it is enqueued
findPathBFSPremarked(s, d) ==
  [ nodes       |-> << [x |-> s.x, y |-> s.y, parent |-> 0] >>,
    queue       |-> << 1 >>,
    visited     |-> [i \in Idx |-> [j \in Idx |-> i = s.y /\ j = s.x]],
    found       |-> FALSE,
    position    |-> 0,
    destination |-> d ]

\* findPathBFS lines 129-142: the closure state at the time setInterval
\* is called.
findPathBFS(s, d) ==
  [ nodes       |-> << [x |-> s.x, y |-> s.y, parent |-> 0] >>,
    queue       |-> << 1 >>,
    visited     |-> [i \in Idx |-> [j \in Idx |-> FALSE]],
    found       |-> FALSE,
    position    |-> 0,      \* the position last taken off the queue
    destination |-> d ]

\* variant: the BLOCK test is missing
validPositionThroughBlocks(g, p) ==
  /\ p.x >= 0
  /\ p.x < numGrids
  /\ p.y >= 0
  /\ p.y < numGrids

validPosition(g, p) ==
  /\ p.x >= 0
  /\ p.x < numGrids
  /\ p.y >= 0
  /\ p.y < numGrids
  /\ g[p.y][p.x] # BLOCK

\* variant: queue.pop(), the frontier used as a stack
shiftLast(q) == [position |-> q[Len(q)], rest |-> SubSeq(q, 1, Len(q) - 1)]

\* queue.shift()
shift(q) == [position |-> Head(q), rest |-> Tail(q)]

\* variant: an if in place of the while, one cell is marked at most
markPathOnce(g, nodes, from, to) ==
  IF from = 0
    THEN [grids |-> g, threw |-> TRUE]
    ELSE IF nodes[from].x = to.x /\ nodes[from].y = to.y
      THEN [grids |-> g, threw |-> FALSE]
      ELSE [grids |-> [g EXCEPT ![nodes[from].y][nodes[from].x] = PATH],
            threw |-> FALSE]

\* markPath(from, to): from is an arena index (0 = undefined).  Reading
\* from.x of undefined throws a TypeError.
RECURSIVE markPath(_, _, _, _)
markPath(g, nodes, from, to) ==
  IF from = 0
    THEN [grids |-> g, threw |-> TRUE]
    ELSE IF nodes[from].x = to.x /\ nodes[from].y = to.y
      THEN [grids |-> g, threw |-> FALSE]
      ELSE markPath([g EXCEPT ![nodes[from].y][nodes[from].x] = PATH],
                    nodes, nodes[from].parent, to)

\* variant: the first neighbour is a diagonal one
adjacentDiagonal(p, id) ==
  << [x |-> p.x - 1, y |-> p.y - 1, parent |-> id],
     [x |-> p.x,     y |-> p.y + 1, parent |-> id],
     [x |-> p.x - 1, y |-> p.y,     parent |-> id],
     [x |-> p.x + 1, y |-> p.y,     parent |-> id] >>

\* lines 167-175: the four neighbours in the order up, down, left, right
adjacent(p, id) ==
  << [x |-> p.x,     y |-> p.y - 1, parent |-> id],
     [x |-> p.x,     y |-> p.y + 1, parent |-> id],
     [x |-> p.x - 1, y |-> p.y,     parent |-> id],
     [x |-> p.x + 1, y |-> p.y,     parent |-> id] >>

\* variant: the visited test is missing
unvisitedAlways(visited, p) == TRUE

\* line 149
unvisited(visited, p) == ~visited[p.y][p.x]

\* variant: the found flag is not tested
runningIgnoresFound(c) == Len(c.queue) > 0

\* line 145
running(c) == Len(c.queue) > 0 /\ ~c.found

\* One call of the interval callback step on closure c and grid g.
\* Result: the closure and grid afterwards, whether the call cleared the
\* interval, and what it threw.
step(c, g) ==
  IF running(c)
  THEN
    LET sh  == shift(c.queue)
        id  == sh.position
        pos == c.nodes[id]
        dst == c.destination
    IN
    IF unvisited(c.visited, pos)
    THEN
      LET vis   == [c.visited EXCEPT ![pos.y][pos.x] = TRUE]
          atDst == pos.x = dst.x /\ pos.y = dst.y
          g1    == IF ~(id = 1) /\ ~atDst
                     THEN [g EXCEPT ![pos.y][pos.x] = SCAN]
                     ELSE g
      IN
      IF atDst
      THEN
        LET mp == markPath(g1, c.nodes, pos.parent, c.nodes[1])
        IN  IF mp.threw
              THEN [closure |-> [c EXCEPT !.queue = sh.rest, !.visited = vis,
                                          !.position = id],
                    grids |-> mp.grids, clear |-> FALSE, threw |-> "TypeError"]
              ELSE [closure |-> [c EXCEPT !.queue = sh.rest, !.visited = vis,
                                          !.found = TRUE, !.position = id],
                    grids |-> mp.grids, clear |-> FALSE, threw |-> "none"]
      ELSE
        LET Valid(p) == validPosition(g1, p)
            new      == SelectSeq(adjacent(pos, id), Valid)
            ids      == [k \in 1 .. Len(new) |-> Len(c.nodes) + k]
        IN  [closure |-> [c EXCEPT !.queue = sh.rest \o ids,
                                   !.visited = vis,
                                   !.nodes = c.nodes \o new,
                                   !.position = id],
             grids |-> g1, clear |-> FALSE, threw |-> "none"]
    ELSE [closure |-> [c EXCEPT !.queue = sh.rest, !.position = id],
          grids |-> g, clear |-> FALSE, threw |-> "none"]
  ELSE [closure |-> c, grids |-> g, clear |-> TRUE, threw |-> "none"]

\* --------------------------------------------------------------- actions
\* The closures that can still matter: those whose interval is active, and
\* the latest one.
live(ss, ts, latest) == [t \in (ts \cup {latest}) |-> ss[t]]

\* The state randomizeGrids leaves, for the blocks bs and the draws s and d.
generated(bs, s, d, ts, oldId, ss) ==
  LET id  == oldId + 1      \* setInterval returns a fresh id
      ts1 == stopRunning(ts, oldId)
      all == [t \in DOMAIN ss \cup {id} |->
                IF t = id THEN findPathBFS(s, d) ELSE ss[t]]
  IN  /\ grids' = markEnds(generateBlocks(bs), s, d)
      /\ source' = s
      /\ destination' = d
      /\ simInterval' = id
      /\ timers' = ts1 \cup {id}
      /\ sessions' = live(all, ts1 \cup {id}, id)
      /\ signal' = "none"

\* the sets of at most k cells
RECURSIVE UpTo(_)
UpTo(k) ==
  IF k = 0 THEN {{}}
  ELSE LET less == UpTo(k - 1)
       IN  less \cup {bs \cup {c} : bs \in less, c \in Coords}

BlockSets == UpTo(MaxBlocks)
RestartBlockSets ==
  SUBSET {c \in Coords : c[1] * numGrids + c[2] < RestartBlockCells}

\* the click handler of the randomize button
randomizeGrids ==
  /\ simInterval < MaxSessions
  /\ \E bs \in RestartBlockSets, s \in generateRandomPoint,
        d \in generateRandomPoint :
       /\ ~sameObject(s, d)
       /\ generated(bs, s, d, timers, simInterval, sessions)

\* the interval t fires and runs its callback
tick(t) ==
  LET r == step(sessions[t], grids)
  IN  /\ grids' = r.grids
      /\ sessions' = [sessions EXCEPT ![t] = r.closure]
      /\ timers' = IF r.clear THEN clearInterval(timers, simInterval) ELSE timers
      /\ signal' = r.threw
      /\ UNCHANGED <<source, destination, simInterval>>

\* setup(): the first randomizeGrids, with simInterval still undefined
Init ==
  \E bs \in BlockSets, s \in generateRandomPoint, d \in generateRandomPoint :
    /\ ~sameObject(s, d)
    /\ grids = markEnds(generateBlocks(bs), s, d)
    /\ source = s
    /\ destination = d
    /\ simInterval = 1
    /\ timers = {1}
    /\ sessions = [t \in {1} |-> findPathBFS(s, d)]
    /\ signal = "none"

Next ==
  \/ randomizeGrids
  \/ \E t \in timers : tick(t)

Spec == Init /\ [][Next]_vars

\* The run of one session with no further click, the interval firing fairly.
NextNoRestart == \E t \in timers : tick(t)

SpecNoRestart ==
  Init /\ [][NextNoRestart]_vars /\ WF_vars(NextNoRestart)

\* ------------------------------------------------- vocabulary of the claims
\* the closure of the latest session
cur == sessions[simInterval]

\* Found, or Exhausted (frontier empty)
Terminal(c) == c.found \/ Len(c.queue) = 0

sameCoord(p, q) == p.x = q.x /\ p.y = q.y

\* the positions met walking parent links from arena index id to the root
RECURSIVE Chain(_, _)
Chain(nodes, id) ==
  IF id = 0 THEN << >> ELSE << nodes[id] >> \o Chain(nodes, nodes[id].parent)

\* the cells one 4-connected move away from a cell of front
Moves(front) ==
  { c \in Coords : \E f \in front :
      \/ (c[1] = f[1] /\ (c[2] = f[2] + 1 \/ c[2] = f[2] - 1))
      \/ (c[2] = f[2] /\ (c[1] = f[1] + 1 \/ c[1] = f[1] - 1)) }

\* Length of a shortest 4-connected walk from a cell of front to cell d over
\* the cells of free, by layers; -1 if there is none.
RECURSIVE Layers(_, _, _, _, _)
Layers(front, seen, free, d, k) ==
  IF d \in front THEN k
  ELSE IF front = {} THEN -1
  ELSE LET nxt == (Moves(front) \cap free) \ seen
       IN  Layers(nxt, seen \cup nxt, free, d, k + 1)

NotBlocked == { c \in Coords : grids[c[1]][c[2]] # BLOCK }

Distance ==
  Layers({<<source.y, source.x>>}, {<<source.y, source.x>>}, NotBlocked,
         <<destination.y, destination.x>>, 0)

FourAdjacent(p, q) ==
  \/ (p.x = q.x /\ (p.y = q.y + 1 \/ p.y = q.y - 1))
  \/ (p.y = q.y /\ (p.x = q.x + 1 \/ p.x = q.x - 1))

\* the parent chain of the dequeued destination, destination first
FoundChain == Chain(cur.nodes, cur.position)

CellsOf(v) == { c \in Coords : grids[c[1]][c[2]] = v }

\* ----------------------------------------------------------------- claims

\* C1: if the search reaches Found, the parent chain from the dequeued
\* destination position back to the source has as many edges as the shortest
\* 4-connected walk from source to destination over non-Blocked cells; on an
\* obstacle-free grid from (0,0) to (N-1,N-1) that is 2(N-1).
C1_ShortestChain ==
  cur.found =>
    /\ Len(FoundChain) - 1 = Distance
    /\ ( /\ CellsOf(BLOCK) = {}
         /\ source.x = 0 /\ source.y = 0
         /\ destination.x = numGrids - 1 /\ destination.y = numGrids - 1 )
       => Len(FoundChain) - 1 = 2 * (numGrids - 1)

\* Found with a path that had to go round a block
C1_Witness ==
  /\ cur.found
  /\ Len(FoundChain) - 1 >
       (IF source.x > destination.x THEN source.x - destination.x
                                    ELSE destination.x - source.x)
     + (IF source.y > destination.y THEN source.y - destination.y
                                    ELSE destination.y - source.y)

\* C2: if Found is reached, the path given by the parent chain has 4-adjacent
\* consecutive positions, holds no Blocked cell, starts at the source
\* coordinate, ends at the destination coordinate and repeats no coordinate.
C2_PathWellFormed ==
  cur.found =>
    LET ch == FoundChain
        n  == Len(ch)
    IN  /\ n >= 2
        /\ sameCoord(ch[1], destination)
        /\ sameCoord(ch[n], source)
        /\ \A i \in 1 .. (n - 1) : FourAdjacent(ch[i], ch[i + 1])
        /\ \A i \in 1 .. n : grids[ch[i].y][ch[i].x] # BLOCK
        /\ \A i, j \in 1 .. n : i # j => ~sameCoord(ch[i], ch[j])

C2_Witness == cur.found /\ Len(FoundChain) >= 4 /\ CellsOf(BLOCK) # {}

\* C3: a search run without restart ends in Found exactly when the
\* destination is reachable from the source over non-Blocked cells, and in
\* Exhausted (frontier empty, found false, nothing thrown) exactly when it is
\* not.
C3_FoundIffReachable ==
  Terminal(cur) =>
    /\ cur.found <=> (Distance >= 0)
    /\ (Len(cur.queue) = 0 /\ ~cur.found /\ signal = "none") <=> (Distance < 0)

\* C4: with the interval firing fairly and no further click, the session
\* reaches a terminal state and its interval is cleared.
C4_EventuallyCleared == <>(Terminal(cur) /\ timers = {})

\* a cleared session in which some coordinate was enqueued more than once
C4_Witness ==
  /\ Terminal(cur)
  /\ timers = {}
  /\ \E i, j \in 1 .. Len(cur.nodes) :
       i # j /\ sameCoord(cur.nodes[i], cur.nodes[j])

\* C5: in every state exactly one cell is Source and exactly one is
\* Destination, and they are the cells at the generated source and
\* destination coordinates.
C5_OneSourceOneDestination ==
  /\ CellsOf(SOURCE) = {<<source.y, source.x>>}
  /\ CellsOf(DESTINATION) = {<<destination.y, destination.x>>}

\* C6: after every run of the generator the source and the destination
\* differ by coordinate value.
C6_DistinctEnds == ~sameCoord(source, destination)

C8_OneTimer ==
  /\ Cardinality(timers) <= 1
  /\ timers \subseteq {simInterval}
  /\ DOMAIN sessions = {simInterval}

\* a second session stepping after a click
C8_Witness == simInterval >= 2 /\ timers = {simInterval} /\ cur.position # 0

\* C9: a click at any point stops the previous session for good (every
\* later step is a step of the latest session, so the previous one never
\* writes to the new grid) and the new session starts with the frontier
\* holding only the new source, no cell visited and the found flag false.
C9_RestartIsTotal ==
  [][ /\ \A t \in timers : t # simInterval => ~tick(t)
      /\ simInterval' # simInterval =>
           /\ timers' = {simInterval'}
           /\ DOMAIN sessions' = {simInterval'}
           /\ LET c == sessions'[simInterval']
              IN  /\ c.queue = << 1 >>
                  /\ c.nodes = << [x |-> source'.x, y |-> source'.y,
                                   parent |-> 0] >>
                  /\ \A i, j \in Idx : ~c.visited[i][j]
                  /\ ~c.found ]_vars

\* the state a click leaves
C9_Witness ==
  /\ simInterval >= 2
  /\ cur.queue = << 1 >>
  /\ cur.position = 0
  /\ CellsOf(SCAN) = {}

Intermediate ==
  { <<FoundChain[i].y, FoundChain[i].x>> : i \in 2 .. (Len(FoundChain) - 1) }

\* C12: when the step that dequeues the destination completes, the Path
\* cells are exactly the intermediate coordinates of the parent chain from
\* the destination back to the source (both ends excluded), so there are
\* shortest distance minus one of them; no other cell is Path, and before
\* that step no cell is.
C12_PathCellsAreTheChain ==
  /\ cur.found =>
       /\ CellsOf(PATH) = Intermediate
       /\ Cardinality(CellsOf(PATH)) = Distance - 1
  /\ ~cur.found => CellsOf(PATH) = {}

\* found through at least two intermediate cells
C12_Witness == cur.found /\ Cardinality(CellsOf(PATH)) >= 2

\* C13: whenever the destination coordinate is dequeued, the backtrack from
\* that position's parent reaches the source coordinate without reading a
\* missing parent: nothing is thrown and the found flag is set.
C13_BacktrackReachesSource ==
  (cur.position # 0 /\ sameCoord(cur.nodes[cur.position], destination)) =>
    (signal = "none" /\ cur.found)

\* the arena indices of the positions that pushed a neighbour
Expanded(c) == { c.nodes[i].parent : i \in 2 .. Len(c.nodes) }

\* the coordinates marked in a visited matrix
VisitedCells(v) == { c \in Coords : v[c[1]][c[2]] }

\* the position at the front of the frontier
Front(c) == c.nodes[Head(c.queue)]

\* C14: across a session each coordinate is marked visited and expanded at
\* most once.  A step marks at most the coordinate it dequeued, and only if
\* it was not visited; a visited coordinate stays visited; a later frontier
\* instance of a visited coordinate is not expanded; the positions already
\* created keep their parent; and the position expanded for a coordinate is
\* the first one created for it.
C14_VisitedOnce ==
  [][\A t \in timers : (simInterval' = simInterval /\ tick(t)) =>
       LET c == sessions[t]
           d == sessions'[t]
       IN  /\ VisitedCells(c.visited) \subseteq VisitedCells(d.visited)
           /\ \A i \in 1 .. Len(c.nodes) : d.nodes[i] = c.nodes[i]
           /\ (Len(c.queue) > 0 /\ ~c.found) =>
                /\ VisitedCells(d.visited) \ VisitedCells(c.visited)
                     \subseteq {<<Front(c).y, Front(c).x>>}
                /\ c.visited[Front(c).y][Front(c).x] =>
                     (d.nodes = c.nodes /\ d.visited = c.visited)
           /\ \A p, q \in Expanded(d) :
                sameCoord(d.nodes[p], d.nodes[q]) => p = q
           /\ \A p \in Expanded(d) : \A q \in 1 .. (p - 1) :
                ~sameCoord(d.nodes[q], d.nodes[p]) ]_vars

\* a later instance of an expanded coordinate has been taken off the
\* frontier
C14_Witness ==
  /\ cur.position # 0
  /\ \E q \in Expanded(cur) :
       q < cur.position /\ sameCoord(cur.nodes[q], cur.nodes[cur.position])

\* C15: a step that dequeues a position whose coordinate is already visited
\* removes that one frontier entry and changes nothing else: the grid, the
\* visited set, the found flag and the timer are unchanged and no neighbour
\* is enqueued.
C15_SkipOnlyDequeues ==
  [][\A t \in timers :
       ( /\ simInterval' = simInterval
         /\ Len(sessions[t].queue) > 0
         /\ ~sessions[t].found
         /\ sessions[t].visited[Front(sessions[t]).y][Front(sessions[t]).x]
         /\ tick(t) ) =>
       LET c == sessions[t]
           d == sessions'[t]
       IN  /\ d.queue = Tail(c.queue)
           /\ d.nodes = c.nodes
           /\ d.visited = c.visited
           /\ d.found = c.found
           /\ grids' = grids
           /\ timers' = timers ]_vars

\* the position last dequeued was a duplicate of the source or of an
\* earlier position, with the frontier not yet empty
C15_Witness ==
  /\ cur.position # 0
  /\ ~cur.found
  /\ Len(cur.queue) > 0
  /\ \E q \in 1 .. (cur.position - 1) :
       sameCoord(cur.nodes[q], cur.nodes[cur.position])

\* shortest 4-connected distance of every cell from the source over
\* non-Blocked cells, -1 where there is none
DistanceFromSource ==
  [c \in Coords |->
     Layers({<<source.y, source.x>>}, {<<source.y, source.x>>},
            NotBlocked, c, 0)]

\* C16: positions leave the frontier in the order they were inserted (the
\* frontier is always the run of the latest arena indices, and the position
\* last dequeued is the one just before it), and so cells become visited in
\* non-decreasing distance from the source: a visited cell is never farther
\* than a reachable cell that is not visited yet.
C16_FifoByDistance ==
  LET c == cur
      n == Len(c.nodes)
      k == Len(c.queue)
      D == DistanceFromSource
  IN  /\ \A i \in 1 .. k : c.queue[i] = n - k + i
      /\ c.position = n - k
      /\ \A a \in VisitedCells(c.visited) : \A b \in Coords :
           (D[b] >= 0 /\ D[b] < D[a]) => c.visited[b[1]][b[2]]

\* a cell two or more moves away is visited while a reachable cell is not
C16_Witness ==
  /\ \E a \in Coords : cur.visited[a[1]][a[2]] /\ DistanceFromSource[a] >= 2
  /\ \E b \in Coords : ~cur.visited[b[1]][b[2]] /\ DistanceFromSource[b] >= 0

\* C17: every position held in the frontier is inside the grid and its cell
\* is not Blocked, so the visited lookup and the grid write made when it is
\* dequeued stay inside the grid.
C17_FrontierInGrid ==
  \A t \in DOMAIN sessions : \A i \in 1 .. Len(sessions[t].queue) :
    LET q == sessions[t].nodes[sessions[t].queue[i]]
    IN  /\ q.x \in Idx
        /\ q.y \in Idx
        /\ grids[q.y][q.x] # BLOCK

\* a frontier holding a neighbour next to a Blocked cell and the grid edge
C17_Witness ==
  /\ Len(cur.queue) >= 2
  /\ CellsOf(BLOCK) # {}
  /\ \E i \in 1 .. Len(cur.queue) :
       LET q == cur.nodes[cur.queue[i]]
       IN  /\ q.parent # 0
           /\ (q.x = 0 \/ q.y = 0 \/ q.x = numGrids - 1 \/ q.y = numGrids - 1)
           /\ \E b \in CellsOf(BLOCK) :
                FourAdjacent([x |-> b[2], y |-> b[1]], cur.nodes[q.parent])

\* C18: during a session the search never changes a Blocked cell and every
\* cell only moves forward along Free -> Visiting -> Path.  A step changes
\* at most the cell it dequeued, from Free to Visiting; only the step that
\* finds the destination changes cells, from Visiting to Path; no cell
\* returns to Free or becomes Blocked.
C18_CellsMoveForward ==
  [][\A t \in timers : (simInterval' = simInterval /\ tick(t)) =>
       LET c == sessions[t]
           d == sessions'[t]
       IN  \A y, x \in Idx :
             \/ grids'[y][x] = grids[y][x]
             \/ /\ grids[y][x] = FREE
                /\ grids'[y][x] = SCAN
                /\ ~d.found
                /\ Len(c.queue) > 0
                /\ Front(c).x = x /\ Front(c).y = y
             \/ /\ grids[y][x] = SCAN
                /\ grids'[y][x] = PATH
                /\ ~c.found
                /\ d.found ]_vars

\* Blocked cells still in place next to scanned and path cells
C18_Witness ==
  /\ cur.found
  /\ CellsOf(PATH) # {}
  /\ CellsOf(SCAN) # {}
  /\ CellsOf(BLOCK) # {}

====
